---- MODULE Spec2Model ----
(***************************************************************************)
(* The market-bar updater (scripts/update.mjs and its four sibling         *)
(* variants).  Each variant fetches quotes from one or two upstream        *)
(* sources, normalises them to quote records, merges them and writes       *)
(* bar-data.json, with an empty-shell fallback write when main() rejects.  *)
(*                                                                         *)
(* Variants:  "update"   = src/scripts/update.mjs  (Yahoo + CoinGecko)     *)
(*            "part_000" = src/unnamed/part_000    (Stooq daily)           *)
(*            "part_001" = src/unnamed/part_001    (Stooq daily+CoinGecko) *)
(*            "part_002" = src/unnamed/part_002    (Stooq daily, 4 idx)    *)
(*            "part_003" = src/unnamed/part_003    (Stooq batch+CoinGecko) *)
(*                                                                         *)
(* JavaScript values are records [t, n, d, s]: t is the type tag, n/d the  *)
(* numerator and denominator of a number (exact rationals stand for the    *)
(* doubles), s the characters of a string (a sequence of 1-char strings).  *)
(***************************************************************************)
EXTENDS Integers, Sequences, FiniteSets, TLC

(* ------------------------- JavaScript values --------------------------- *)

Undef == [t |-> "undefined", n |-> 0, d |-> 1, s |-> <<>>]
Null  == [t |-> "null",      n |-> 0, d |-> 1, s |-> <<>>]
NaN   == [t |-> "NaN",       n |-> 0, d |-> 1, s |-> <<>>]
PosInf == [t |-> "Infinity", n |-> 1, d |-> 0, s |-> <<>>]
NegInf == [t |-> "Infinity", n |-> -1, d |-> 0, s |-> <<>>]
Str(chars) == [t |-> "string", n |-> 0, d |-> 1, s |-> chars]

Abs(x) == IF x < 0 THEN -x ELSE x

RECURSIVE GCD(_, _)
GCD(a, b) == IF b = 0 THEN a ELSE GCD(b, a % b)

Sgn(x) == IF x < 0 THEN -1 ELSE 1

RatBy(p, q, g) ==
  [t |-> "number", n |-> (Sgn(q) * p) \div g, d |-> Abs(q) \div g, s |-> <<>>]

\* The number p/q (q # 0) in lowest terms with a positive denominator.
Rat(p, q) == RatBy(p, q, GCD(Abs(p), Abs(q)))

Num(k) == Rat(k, 1)

\* x == null  (true of null and undefined)
IsNullish(x) == x.t \in {"undefined", "null"}

\* ToBoolean
Truthy(x) ==
  CASE x.t \in {"undefined", "null", "NaN"} -> FALSE
    [] x.t = "number" -> x.n # 0
    [] x.t = "string" -> x.s # <<>>
    [] OTHER -> TRUE

\* a || b   and   a ?? b
Or(a, b) == IF Truthy(a) THEN a ELSE b
Coalesce(a, b) == IF IsNullish(a) THEN b ELSE a

\* Number.isFinite
IsFinite(x) == x.t = "number"

\* x !== 0
StrictNeqZero(x) == ~(x.t = "number" /\ x.n = 0)

(* ------------------------------ strings -------------------------------- *)

LowerCase == << "a","b","c","d","e","f","g","h","i","j","k","l","m",
                "n","o","p","q","r","s","t","u","v","w","x","y","z" >>
UpperCase == << "A","B","C","D","E","F","G","H","I","J","K","L","M",
                "N","O","P","Q","R","S","T","U","V","W","X","Y","Z" >>
Digits == << "0","1","2","3","4","5","6","7","8","9" >>

IndexIn(c, alphabet) ==
  IF \E k \in DOMAIN alphabet : alphabet[k] = c
  THEN CHOOSE k \in DOMAIN alphabet : alphabet[k] = c
  ELSE 0

ToUpperChar(c) == IF IndexIn(c, LowerCase) # 0 THEN UpperCase[IndexIn(c, LowerCase)] ELSE c
ToLowerChar(c) == IF IndexIn(c, UpperCase) # 0 THEN LowerCase[IndexIn(c, UpperCase)] ELSE c

\* String.prototype.toUpperCase / toLowerCase on the characters of a string
toUpperCase(chars) == [k \in DOMAIN chars |-> ToUpperChar(chars[k])]
toLowerCase(chars) == [k \in DOMAIN chars |-> ToLowerChar(chars[k])]

IsSpace(c) == c = " "
IsDigit(c) == IndexIn(c, Digits) # 0
DigitVal(c) == IndexIn(c, Digits) - 1

RECURSIVE TrimLeft(_)
TrimLeft(chars) ==
  IF chars # <<>> /\ IsSpace(Head(chars)) THEN TrimLeft(Tail(chars)) ELSE chars

RECURSIVE TrimRight(_)
TrimRight(chars) ==
  IF chars # <<>> /\ IsSpace(chars[Len(chars)])
  THEN TrimRight(SubSeq(chars, 1, Len(chars) - 1))
  ELSE chars

\* String.prototype.trim
trim(chars) == TrimRight(TrimLeft(chars))

\* String.prototype.replace(/[^0-9.\-]/g, "")
StripNonNumeric(chars) ==
  SelectSeq(chars, LAMBDA c : IsDigit(c) \/ c = "." \/ c = "-")

RECURSIVE DigitsValue(_)
DigitsValue(chars) ==
  IF chars = <<>> THEN 0
  ELSE 10 * DigitsValue(SubSeq(chars, 1, Len(chars) - 1)) + DigitVal(chars[Len(chars)])

RECURSIVE Pow10(_)
Pow10(k) == IF k = 0 THEN 1 ELSE 10 * Pow10(k - 1)

AllDigits(chars) == \A k \in DOMAIN chars : IsDigit(chars[k])

\* The position of the first "." of chars, 0 when there is none
FirstDot(chars) ==
  IF \E k \in DOMAIN chars : chars[k] = "."
  THEN CHOOSE k \in DOMAIN chars :
         chars[k] = "." /\ \A m \in DOMAIN chars : chars[m] = "." => k <= m
  ELSE 0

\* The value of ip "." fp
DecimalOf(ip, fp) ==
  IF AllDigits(ip) /\ AllDigits(fp) /\ Len(ip) + Len(fp) > 0
  THEN Rat(DigitsValue(ip) * Pow10(Len(fp)) + DigitsValue(fp), Pow10(Len(fp)))
  ELSE NaN

SplitAt(chars, p) == DecimalOf(SubSeq(chars, 1, p - 1), SubSeq(chars, p + 1, Len(chars)))

\* An unsigned decimal literal: digits, digits "." digits?, or "." digits.
UnsignedDecimal(chars) ==
  IF FirstDot(chars) = 0
  THEN IF chars # <<>> /\ AllDigits(chars) THEN Num(DigitsValue(chars)) ELSE NaN
  ELSE SplitAt(chars, FirstDot(chars))

Negate(x) == IF x.t = "number" THEN Rat(-x.n, x.d) ELSE x

\* Number(string): StringToNumber.  Whitespace is trimmed, the empty string is
\* 0, a signed decimal literal is its value, anything else is NaN.  (The
\* field alphabet of the model has no exponent, hex or "Infinity" literals.)
WithSign(sign, x) == IF sign = "-" THEN Negate(x) ELSE x

SignedDecimal(tr) ==
  IF tr = <<>> THEN Num(0)
  ELSE WithSign(Head(tr), UnsignedDecimal(IF Head(tr) \in {"-", "+"} THEN Tail(tr) ELSE tr))

StringToNumber(chars) == SignedDecimal(trim(chars))

\* Number(x) and the ToNumber of an arithmetic operand, for the values that
\* reach them: undefined, null and numbers (strings are parsed by the field
\* parsers n, safeNum and num alone)
ToNumber(x) ==
  CASE x.t = "undefined" -> NaN
    [] x.t = "null" -> Num(0)
    [] OTHER -> x

\* a - b, a / b and a * 100 on doubles (finite operands are exact rationals)
SubNum(x, y) ==
  IF x.t = "number" /\ y.t = "number"
  THEN Rat(x.n * y.d - y.n * x.d, x.d * y.d)
  ELSE NaN

DivNum(x, y) ==
  IF x.t # "number" \/ y.t # "number" THEN NaN
  ELSE IF y.n = 0
       THEN (IF x.n = 0 THEN NaN ELSE IF x.n > 0 THEN PosInf ELSE NegInf)
       ELSE Rat(x.n * y.d, x.d * y.n)

Sub(a, b) == SubNum(ToNumber(a), ToNumber(b))
Div(a, b) == DivNum(ToNumber(a), ToNumber(b))
Times100(x) == IF x.t = "number" THEN Rat(x.n * 100, x.d) ELSE x

\* arr[k] for a 0-based index k of an array of strings: undefined out of range
At(arr, k) == IF k + 1 \in DOMAIN arr THEN Str(arr[k + 1]) ELSE Undef

(* ---------------- configuration compiled into each variant ---------------- *)

\* update.mjs SYMBOLS
SYMBOLS_update ==
  << <<"^","N","S","E","I">>,
     <<"^","B","S","E","S","N">>,
     <<"^","N","S","E","B","A","N","K">>,
     <<"^","G","S","P","C">>,
     <<"^","N","D","X">>,
     <<"A","A","P","L">>,
     <<"M","S","F","T">> >>

\* update.mjs COINGECKO
COINGECKO_update ==
  << [id |-> <<"b","i","t","c","o","i","n">>, symbol |-> <<"B","T","C","-","U","S","D">>, name |-> <<"B","i","t","c","o","i","n">>],
     [id |-> <<"e","t","h","e","r","e","u","m">>, symbol |-> <<"E","T","H","-","U","S","D">>, name |-> <<"E","t","h","e","r","e","u","m">>] >>

\* update.mjs FRIENDLY
FRIENDLY_update ==
  (<<"^","N","S","E","I">> :> <<"N","I","F","T","Y"," ","5","0">>)
  @@ (<<"^","B","S","E","S","N">> :> <<"S","E","N","S","E","X">>)
  @@ (<<"^","N","S","E","B","A","N","K">> :> <<"N","I","F","T","Y"," ","B","a","n","k">>)
  @@ (<<"^","G","S","P","C">> :> <<"S","&","P"," ","5","0","0">>)
  @@ (<<"^","N","D","X">> :> <<"N","A","S","D","A","Q"," ","1","0","0">>)

\* part_000 STOOQ_SYMBOLS
STOOQ_SYMBOLS_part_000 ==
  << <<"^","s","p","x">>,
     <<"^","n","d","x">>,
     <<"^","k","o","s","p","i">>,
     <<"^","n","k","x">>,
     <<"^","h","s","i">>,
     <<"^","d","a","x">>,
     <<"x",".","f">>,
     <<"g","c",".","f">> >>

\* part_000 FRIENDLY
FRIENDLY_part_000 ==
  (<<"^","s","p","x">> :> <<"S","&","P"," ","5","0","0">>)
  @@ (<<"^","n","d","x">> :> <<"N","A","S","D","A","Q"," ","1","0","0">>)
  @@ (<<"^","k","o","s","p","i">> :> <<"K","O","S","P","I"," ","(","K","o","r","e","a",")">>)
  @@ (<<"^","n","k","x">> :> <<"N","i","k","k","e","i"," ","2","2","5">>)
  @@ (<<"^","h","s","i">> :> <<"H","a","n","g"," ","S","e","n","g">>)
  @@ (<<"^","d","a","x">> :> <<"D","A","X"," ","(","G","e","r","m","a","n","y",")">>)
  @@ (<<"x",".","f">> :> <<"F","T","S","E"," ","1","0","0">>)
  @@ (<<"g","c",".","f">> :> <<"G","o","l","d">>)

\* part_001 STOOQ_SYMBOLS
STOOQ_SYMBOLS_part_001 ==
  << <<"^","s","p","x">>,
     <<"^","n","d","x">>,
     <<"^","d","j","i">>,
     <<"g","c",".","f">>,
     <<"c","l",".","f">>,
     <<"s","i",".","f">>,
     <<"a","a","p","l",".","u","s">>,
     <<"m","s","f","t",".","u","s">> >>

\* part_001 FRIENDLY
FRIENDLY_part_001 ==
  (<<"^","s","p","x">> :> <<"S","&","P"," ","5","0","0">>)
  @@ (<<"^","n","d","x">> :> <<"N","A","S","D","A","Q"," ","1","0","0">>)
  @@ (<<"^","d","j","i">> :> <<"D","o","w"," ","J","o","n","e","s">>)
  @@ (<<"g","c",".","f">> :> <<"G","o","l","d">>)
  @@ (<<"c","l",".","f">> :> <<"C","r","u","d","e"," ","O","i","l">>)
  @@ (<<"s","i",".","f">> :> <<"S","i","l","v","e","r">>)
  @@ (<<"a","a","p","l",".","u","s">> :> <<"A","p","p","l","e">>)
  @@ (<<"m","s","f","t",".","u","s">> :> <<"M","i","c","r","o","s","o","f","t">>)
  @@ (<<"B","T","C","-","U","S","D">> :> <<"B","i","t","c","o","i","n">>)
  @@ (<<"E","T","H","-","U","S","D">> :> <<"E","t","h","e","r","e","u","m">>)

\* part_001 COINS
COINS_part_001 ==
  << [id |-> <<"b","i","t","c","o","i","n">>, symbol |-> <<"B","T","C","-","U","S","D">>, name |-> <<"B","i","t","c","o","i","n">>],
     [id |-> <<"e","t","h","e","r","e","u","m">>, symbol |-> <<"E","T","H","-","U","S","D">>, name |-> <<"E","t","h","e","r","e","u","m">>] >>

\* part_002 STOOQ_SYMBOLS
STOOQ_SYMBOLS_part_002 ==
  << <<"^","s","p","x">>,
     <<"^","n","d","x">>,
     <<"^","h","s","i">>,
     <<"^","s","h","c">> >>

\* part_002 FRIENDLY
FRIENDLY_part_002 ==
  (<<"^","s","p","x">> :> <<"S","&","P"," ","5","0","0">>)
  @@ (<<"^","n","d","x">> :> <<"N","A","S","D","A","Q"," ","1","0","0">>)
  @@ (<<"^","h","s","i">> :> <<"H","a","n","g"," ","S","e","n","g">>)
  @@ (<<"^","s","h","c">> :> <<"S","h","a","n","g","h","a","i"," ","C","o","m","p",".">>)

\* part_003 STOOQ_SYMBOLS
STOOQ_SYMBOLS_part_003 ==
  << <<"^","s","p","x">>,
     <<"^","n","d","x">>,
     <<"^","d","j","i">>,
     <<"g","c",".","f">>,
     <<"c","l",".","f">>,
     <<"s","i",".","f">>,
     <<"a","a","p","l",".","u","s">>,
     <<"m","s","f","t",".","u","s">> >>

\* part_003 FRIENDLY
FRIENDLY_part_003 ==
  (<<"^","s","p","x">> :> <<"S","&","P"," ","5","0","0">>)
  @@ (<<"^","n","d","x">> :> <<"N","A","S","D","A","Q"," ","1","0","0">>)
  @@ (<<"^","d","j","i">> :> <<"D","o","w"," ","J","o","n","e","s">>)
  @@ (<<"g","c",".","f">> :> <<"G","o","l","d">>)
  @@ (<<"c","l",".","f">> :> <<"C","r","u","d","e"," ","O","i","l">>)
  @@ (<<"s","i",".","f">> :> <<"S","i","l","v","e","r">>)
  @@ (<<"a","a","p","l",".","u","s">> :> <<"A","p","p","l","e">>)
  @@ (<<"m","s","f","t",".","u","s">> :> <<"M","i","c","r","o","s","o","f","t">>)
  @@ (<<"B","T","C","-","U","S","D">> :> <<"B","i","t","c","o","i","n">>)
  @@ (<<"E","T","H","-","U","S","D">> :> <<"E","t","h","e","r","e","u","m">>)

\* part_003 COINS
COINS_part_003 ==
  << [id |-> <<"b","i","t","c","o","i","n">>, symbol |-> <<"B","T","C","-","U","S","D">>, name |-> <<"B","i","t","c","o","i","n">>],
     [id |-> <<"e","t","h","e","r","e","u","m">>, symbol |-> <<"E","T","H","-","U","S","D">>, name |-> <<"E","t","h","e","r","e","u","m">>] >>

\* obj[key] on a name table: undefined when the key has no entry
Lookup(table, key) ==
  IF key.t = "string" /\ key.s \in DOMAIN table THEN Str(table[key.s]) ELSE Undef

(* --------------------------- quote records ----------------------------- *)

\* A normalised quote record.  A key the variant does not set is undefined.
Quote(symbol, name, price, change, changePercent, marketState) ==
  [symbol |-> symbol, name |-> name, price |-> price, change |-> change,
   changePercent |-> changePercent, marketState |-> marketState]

NoQuote == Quote(Undef, Undef, Undef, Undef, Undef, Undef)

\* The outcome of an async function: a returned value or a thrown Error.
Return(v) == [threw |-> FALSE, err |-> "", value |-> v]
Throw(msg, dflt) == [threw |-> TRUE, err |-> msg, value |-> dflt]

DAILY == Str(<<"D","A","I","L","Y">>)
REGULAR == Str(<<"R","E","G","U","L","A","R">>)
CRYPTO == Str(<<"C","R","Y","P","T","O">>)

(* ------------------------- numeric field parsers ------------------------ *)

\* Number(String(x).trim()) for the values the adapters pass
NumberOfTrimmed(x) ==
  CASE x.t = "string" -> StringToNumber(trim(x.s))
    [] x.t = "number" -> x
    [] OTHER -> NaN

\* Number.isFinite(v) ? v : null
FiniteOrNull(v) == IF IsFinite(v) THEN v ELSE Null

\* part_000: n(x)
n(x) == IF IsNullish(x) THEN Null ELSE FiniteOrNull(NumberOfTrimmed(x))

\* part_001: safeNum(x)
safeNum(x) == IF IsNullish(x) THEN Null ELSE FiniteOrNull(NumberOfTrimmed(x))

\* part_002: num(x)
num_part_002(x) == IF IsNullish(x) THEN Null ELSE FiniteOrNull(NumberOfTrimmed(x))

\* part_003: num(x) = Number(String(x).replace(/[^0-9.\-]/g, ""))
NumberOfStripped(x) ==
  CASE x.t = "string" -> StringToNumber(StripNonNumeric(x.s))
    [] x.t = "number" -> x
    [] OTHER -> NaN

num_part_003(x) == IF IsNullish(x) THEN Null ELSE FiniteOrNull(NumberOfStripped(x))

(* ------------------- Stooq per-symbol daily adapters -------------------- *)
(* A daily response is [ok, lines]: the HTTP status and the lines of the    *)
(* trimmed CSV body (header first), each line given as its comma-separated  *)
(* fields: Date,Open,High,Low,Close,Volume.                                 *)

\* rows[rows.length - 1]
LastRow(rows) == rows[Len(rows)]

\* rows[rows.length - 2] || []
PrevRow(rows) == IF Len(rows) >= 2 THEN rows[Len(rows) - 1] ELSE <<>>

\* const change = (prevClose != null) ? (close - prevClose) : 0
DailyChange(close, prevClose) ==
  IF ~IsNullish(prevClose) THEN Sub(close, prevClose) ELSE Num(0)

\* A variation that leaves the ratio as a fraction (no * 100)
DailyChangePercent_Fraction(change, prevClose) ==
  IF ~IsNullish(prevClose) /\ StrictNeqZero(prevClose)
  THEN Div(change, prevClose) ELSE Num(0)

\* const changePercent = (prevClose != null && prevClose !== 0) ? (change / prevClose) * 100 : 0
DailyChangePercent(change, prevClose) ==
  IF ~IsNullish(prevClose) /\ StrictNeqZero(prevClose)
  THEN Times100(Div(change, prevClose)) ELSE Num(0)

\* FRIENDLY[key] || symbol.toUpperCase()
DailyName(table, symbol) ==
  Or(Lookup(table, Str(toLowerCase(symbol))), Str(toUpperCase(symbol)))

\* part_000: the record fetchStooqDaily builds from the two closes
DailyQuote_part_000(symbol, close, prevClose) ==
  IF IsNullish(close) THEN Throw("no close", NoQuote)
  ELSE Return(Quote(Str(toLowerCase(symbol)), DailyName(FRIENDLY_part_000, symbol), close,
                    DailyChange(close, prevClose),
                    DailyChangePercent(DailyChange(close, prevClose), prevClose), DAILY))

DailyRows_part_000(symbol, rows) ==
  IF rows = <<>> THEN Throw("no rows", NoQuote)
  ELSE DailyQuote_part_000(symbol, n(At(LastRow(rows), 4)), n(At(PrevRow(rows), 4)))

\* part_000: fetchStooqDaily(symbol) on the response r
fetchStooqDaily_part_000(symbol, r) ==
  IF ~r.ok THEN Throw("status", NoQuote)
  ELSE IF Len(r.lines) < 2 THEN Throw("empty", NoQuote)
  ELSE DailyRows_part_000(symbol, Tail(r.lines))

\* part_001: the record fetchStooqDaily builds from the two closes
DailyQuote_part_001(symbol, close, prevClose) ==
  IF IsNullish(close) THEN Throw("no close", NoQuote)
  ELSE Return(Quote(Str(toLowerCase(symbol)), DailyName(FRIENDLY_part_001, symbol), close,
                    DailyChange(close, prevClose),
                    DailyChangePercent(DailyChange(close, prevClose), prevClose), DAILY))

DailyRows_part_001(symbol, rows) ==
  IF Len(rows) = 0 THEN Throw("no rows", NoQuote)
  ELSE DailyQuote_part_001(symbol, safeNum(At(LastRow(rows), 4)), safeNum(At(PrevRow(rows), 4)))

\* part_001: fetchStooqDaily(symbol) on the response r
fetchStooqDaily_part_001(symbol, r) ==
  IF ~r.ok THEN Throw("status", NoQuote)
  ELSE IF Len(r.lines) < 2 THEN Throw("empty", NoQuote)
  ELSE DailyRows_part_001(symbol, Tail(r.lines))

\* part_002: the record fetchStooqDaily builds from the two closes.  There is
\* no check of close: a null close is returned as the record's price, and
\* close - prevClose takes null as 0.  The record has no marketState key.
DailyQuote_part_002(symbol, close, prevClose) ==
  Return(Quote(Str(toLowerCase(symbol)), DailyName(FRIENDLY_part_002, symbol), close,
               DailyChange(close, prevClose),
               DailyChangePercent(DailyChange(close, prevClose), prevClose), Undef))

DailyRows_part_002(symbol, rows) ==
  DailyQuote_part_002(symbol, num_part_002(At(LastRow(rows), 4)),
                      num_part_002(At(PrevRow(rows), 4)))

\* part_002: fetchStooqDaily(symbol) on the response r
fetchStooqDaily_part_002(symbol, r) ==
  IF ~r.ok THEN Throw("status", NoQuote)
  ELSE IF Len(r.lines) < 2 THEN Throw("empty", NoQuote)
  ELSE DailyRows_part_002(symbol, Tail(r.lines))

(* ----------------------- Stooq batch adapter (part_003) ----------------- *)
(* A batch response is [ok, lines]: the lines of the trimmed CSV body, each *)
(* given as its comma-separated fields; the first line is the header.       *)

\* header.indexOf(k): the 0-based position of k, or -1
IndexOf(header, k) ==
  IF \E p \in DOMAIN header : header[p] = k
  THEN (CHOOSE p \in DOMAIN header :
          header[p] = k /\ \A m \in DOMAIN header : header[m] = k => p <= m) - 1
  ELSE -1

\* lines.shift()?.split(",").map(h => h.trim().toLowerCase()) || []
HeaderOf(lines) ==
  IF lines = <<>> THEN <<>>
  ELSE [p \in DOMAIN Head(lines) |-> toLowerCase(trim(Head(lines)[p]))]

COL_symbol == <<"s","y","m","b","o","l">>
COL_open == <<"o","p","e","n">>
COL_close == <<"c","l","o","s","e">>

\* line.split(",").map(x => x.trim())
ColsOf(line) == [p \in DOMAIN line |-> trim(line[p])]

\* (cols[idx("symbol")] || "").toLowerCase()
SymRaw(symCol) == Str(toLowerCase(Or(symCol, Str(<<>>)).s))

\* FRIENDLY[symRaw] || cols[idx("symbol")] || symRaw
CsvName(symCol, symRaw) == Or(Or(Lookup(FRIENDLY_part_003, symRaw), symCol), symRaw)

\* const chg = (open != null && open !== 0) ? (close - open) : 0
CsvChange(open, close) ==
  IF ~IsNullish(open) /\ StrictNeqZero(open) THEN Sub(close, open) ELSE Num(0)

\* A variation without the guard on the baseline
CsvChangePercent_Unguarded(open, chg) == Times100(Div(chg, open))

\* const pct = (open != null && open !== 0) ? (chg / open) * 100 : 0
CsvChangePercent(open, chg) ==
  IF ~IsNullish(open) /\ StrictNeqZero(open) THEN Times100(Div(chg, open)) ELSE Num(0)

\* The loop body from the parsed fields on: the record pushed, or none
CsvQuote(symCol, open, close) ==
  IF IsNullish(close) \/ close.t = "NaN"
  THEN <<>>
  ELSE << Quote(SymRaw(symCol), CsvName(symCol, SymRaw(symCol)), close,
                CsvChange(open, close), CsvChangePercent(open, CsvChange(open, close)),
                REGULAR) >>

CsvCols(header, cols) ==
  CsvQuote(At(cols, IndexOf(header, COL_symbol)),
           num_part_003(At(cols, IndexOf(header, COL_open))),
           num_part_003(At(cols, IndexOf(header, COL_close))))

\* The body of the loop over the data lines for one line: <<the record
\* pushed>>, or <<>> when the line is skipped
StooqCsvRow(header, line) == CsvCols(header, ColsOf(line))

RECURSIVE StooqCsvRows(_, _)
StooqCsvRows(header, lines) ==
  IF lines = <<>> THEN <<>>
  ELSE StooqCsvRow(header, Head(lines)) \o StooqCsvRows(header, Tail(lines))

\* part_003: fetchStooqCsv(symbols) on the response r
fetchStooqCsv(symbols, r) ==
  IF ~r.ok THEN Throw("status", <<>>)
  ELSE Return(StooqCsvRows(HeaderOf(r.lines), Tail(r.lines)))

(* --------------------------- CoinGecko adapters ------------------------- *)
(* A CoinGecko response is [ok, json]: json maps a coin id to its row       *)
(* [has, usd, usd_24h_change]; has = FALSE is a missing row.                *)

RowOf(json, id) ==
  IF id \in DOMAIN json THEN json[id]
  ELSE [has |-> FALSE, usd |-> Undef, usd_24h_change |-> Undef]

\* part_001: safeNum(row.usd_24h_change ?? 0) ?? 0
CoinChange_part_001(row) == Coalesce(safeNum(Coalesce(row.usd_24h_change, Num(0))), Num(0))

\* part_001: the callback of coins.map in fetchCoinGecko, filtered by Boolean
CoinQuote_part_001(c, row) ==
  IF ~row.has THEN <<>>
  ELSE << Quote(Str(c.symbol), Str(c.name), safeNum(row.usd),
                CoinChange_part_001(row), CoinChange_part_001(row), CRYPTO) >>

RECURSIVE CoinRows_part_001(_, _)
CoinRows_part_001(coins, json) ==
  IF coins = <<>> THEN <<>>
  ELSE CoinQuote_part_001(Head(coins), RowOf(json, Head(coins).id))
       \o CoinRows_part_001(Tail(coins), json)

\* part_001: fetchCoinGecko(coins) on the response r
fetchCoinGecko_part_001(coins, r) ==
  IF ~r.ok THEN Throw("status", <<>>) ELSE Return(CoinRows_part_001(coins, r.json))

\* part_003: Number(row.usd_24h_change ?? 0)
CoinChange_part_003(row) == ToNumber(Coalesce(row.usd_24h_change, Num(0)))

\* part_003: the callback of coins.map in fetchCoinGecko, filtered by Boolean
CoinQuote_part_003(c, row) ==
  IF ~row.has THEN <<>>
  ELSE << Quote(Str(c.symbol), Str(c.name), ToNumber(row.usd),
                CoinChange_part_003(row), CoinChange_part_003(row), CRYPTO) >>

RECURSIVE CoinRows_part_003(_, _)
CoinRows_part_003(coins, json) ==
  IF coins = <<>> THEN <<>>
  ELSE CoinQuote_part_003(Head(coins), RowOf(json, Head(coins).id))
       \o CoinRows_part_003(Tail(coins), json)

\* part_003: fetchCoinGecko(coins) on the response r
fetchCoinGecko_part_003(coins, r) ==
  IF ~r.ok THEN Throw("status", <<>>) ELSE Return(CoinRows_part_003(coins, r.json))

\* update.mjs: coingeckoSimple(ids) on the response r
coingeckoSimple(ids, r) ==
  IF ~r.ok THEN Throw("status", r.json) ELSE Return(r.json)

\* update.mjs main: the body of the loop over COINGECKO for one coin
CryptoQuote_update(c, row) ==
  IF ~row.has THEN <<>>
  ELSE << Quote(Str(c.symbol), Str(c.name), row.usd,
                Coalesce(row.usd_24h_change, Num(0)),
                IF Truthy(row.usd) THEN Coalesce(row.usd_24h_change, Num(0)) ELSE Num(0),
                CRYPTO) >>

\* update.mjs main, step 2: the records pushed by the loop over COINGECKO
RECURSIVE CryptoRows_update(_, _)
CryptoRows_update(coins, data) ==
  IF coins = <<>> THEN <<>>
  ELSE CryptoQuote_update(Head(coins), RowOf(data, Head(coins).id))
       \o CryptoRows_update(Tail(coins), data)

(* ----------------------- Yahoo adapter (update.mjs) --------------------- *)
(* A Yahoo response is [ok, has, q]: has = FALSE is an empty result list,   *)
(* q the first quote object (an absent key is undefined).                   *)

\* FRIENDLY[q.symbol] || q.shortName || q.longName || q.symbol
YahooName(q) ==
  Or(Or(Or(Lookup(FRIENDLY_update, q.symbol), q.shortName), q.longName), q.symbol)

\* q.regularMarketPrice ?? q.preMarketPrice ?? q.postMarketPrice ?? null
YahooPrice(q) ==
  Coalesce(Coalesce(Coalesce(q.regularMarketPrice, q.preMarketPrice), q.postMarketPrice), Null)

\* The record yahooQuoteV7 returns for the quote object q
YahooRecord(q) ==
  Quote(q.symbol, YahooName(q), YahooPrice(q), Coalesce(q.regularMarketChange, Num(0)),
        Coalesce(q.regularMarketChangePercent, Num(0)), Or(q.marketState, REGULAR))

\* update.mjs: yahooQuoteV7(sym, host) on the response r
yahooQuoteV7(sym, r) ==
  IF ~r.ok THEN Throw("status", NoQuote)
  ELSE IF ~r.has THEN Throw("empty", NoQuote)
  ELSE Return(YahooRecord(r.q))

(* ------------------------------ bounds --------------------------------- *)

\* How many of a variant's configured symbols a run fetches (a prefix of the list)
NumSymbols == 2
\* The most data rows of a CSV body
MaxRows == 2

Min(a, b) == IF a < b THEN a ELSE b
Prefix(list, k) == SubSeq(list, 1, Min(k, Len(list)))
SeqsUpTo(S, k) == UNION {[1..m -> S] : m \in 0..k}

Variants == {"update", "part_000", "part_001", "part_002", "part_003"}
PerSymbolStooq == {"part_000", "part_001", "part_002"}
AllSettled == {"part_001", "part_003"}

\* The instrument list the variant's per-symbol or batch adapter is given
SymbolsOf(v) ==
  CASE v = "update" -> Prefix(SYMBOLS_update, NumSymbols)
    [] v = "part_000" -> Prefix(STOOQ_SYMBOLS_part_000, NumSymbols)
    [] v = "part_001" -> Prefix(STOOQ_SYMBOLS_part_001, NumSymbols)
    [] v = "part_002" -> Prefix(STOOQ_SYMBOLS_part_002, NumSymbols)
    [] v = "part_003" -> Prefix(STOOQ_SYMBOLS_part_003, NumSymbols)

(* ------------------------- upstream responses --------------------------- *)

T_100 == <<"1","0","0">>
T_110 == <<"1","1","0">>
T_0 == <<"0">>
T_empty == <<>>
T_ND == <<"N","/","D">>

\* The texts a price field of a CSV row takes
FieldTexts == {T_100, T_110, T_0, T_empty, T_ND}

DailyHeader ==
  << <<"D","a","t","e">>, <<"O","p","e","n">>, <<"H","i","g","h">>, <<"L","o","w">>,
     <<"C","l","o","s","e">>, <<"V","o","l","u","m","e">> >>

DailyRow(close) ==
  << <<"2","0","2","4","-","0","1","-","0","2">>, T_100, T_110, T_100, close, <<"7">> >>

\* A line with fewer than five fields
ShortRow == << <<"N","o"," ","d","a","t","a">> >>

DailyRows == {DailyRow(c) : c \in FieldTexts} \cup {ShortRow}

HttpError == [ok |-> FALSE, lines |-> <<>>]

DailyResponses ==
  {HttpError} \cup {[ok |-> TRUE, lines |-> <<DailyHeader>> \o rows] : rows \in SeqsUpTo(DailyRows, MaxRows)}

CsvHeader ==
  << <<"S","y","m","b","o","l">>, <<"D","a","t","e">>, <<"T","i","m","e">>, <<"O","p","e","n">>,
     <<"H","i","g","h">>, <<"L","o","w">>, <<"C","l","o","s","e">>, <<"V","o","l","u","m","e">> >>

\* A header without the Open column
CsvHeaderNoOpen ==
  << <<"S","y","m","b","o","l">>, <<"D","a","t","e">>, <<"T","i","m","e">>,
     <<"H","i","g","h">>, <<"L","o","w">>, <<"C","l","o","s","e">>, <<"V","o","l","u","m","e">> >>

CsvRow(sym, open, close) ==
  << sym, <<"2","0","2","4","-","0","1","-","0","2">>, <<"2","2",":","0","0">>,
     open, T_110, T_100, close, <<"7">> >>

S_SPX == <<"^","S","P","X">>
S_usdinr == <<"u","s","d","i","n","r">>

\* The symbol column of a batch row: a listed symbol, an unlisted one in lower
\* case, an empty field
CsvSymbols == {S_SPX, S_usdinr, <<>>}

\* The data rows a run of the batch variant receives
CsvRows ==
  { CsvRow(S_SPX, T_100, T_110), CsvRow(S_usdinr, T_0, T_100),
    CsvRow(S_SPX, T_ND, T_ND), CsvRow(<<>>, T_empty, T_110) }

CsvResponses ==
  {HttpError} \cup {[ok |-> TRUE, lines |-> <<CsvHeader>> \o rows] : rows \in SeqsUpTo(CsvRows, MaxRows)}

NoRow == [has |-> FALSE, usd |-> Undef, usd_24h_change |-> Undef]
\* The rows of a CoinGecko body: missing, complete, without its usd field
CoinRows ==
  { NoRow,
    [has |-> TRUE, usd |-> Num(5), usd_24h_change |-> Num(2)],
    [has |-> TRUE, usd |-> Undef, usd_24h_change |-> Undef] }

CoinIds == {COINS_part_001[k].id : k \in DOMAIN COINS_part_001}

CoinResponses ==
  {[ok |-> FALSE, json |-> [id \in CoinIds |-> NoRow]]}
  \cup {[ok |-> TRUE, json |-> j] : j \in [CoinIds -> CoinRows]}

YQ(symbol, shortName, longName, regular, pre) ==
  [symbol |-> symbol, shortName |-> shortName, longName |-> longName,
   regularMarketPrice |-> regular, preMarketPrice |-> pre, postMarketPrice |-> Undef,
   regularMarketChange |-> IF regular.t = "number" THEN Num(1) ELSE Undef,
   regularMarketChangePercent |-> IF regular.t = "number" THEN Num(2) ELSE Undef,
   marketState |-> Undef]

N_Short == Str(<<"S","h","o","r","t">>)
N_Long == Str(<<"L","o","n","g">>)

\* The quote objects Yahoo answers a request for sym with: complete; without a
\* short name; without any name and echoing the symbol in lower case; with a
\* pre-market price only; without any price
YahooQuotes(sym) ==
  { YQ(Str(sym), N_Short, N_Long, Num(7), Undef),
    YQ(Str(sym), Undef, N_Long, Num(7), Undef),
    YQ(Str(toLowerCase(sym)), Undef, Undef, Num(7), Undef),
    YQ(Str(sym), N_Short, Undef, Undef, Num(6)),
    YQ(Str(sym), N_Short, Undef, Undef, Undef) }

YahooResponses(sym) ==
  { [ok |-> FALSE, has |-> FALSE, q |-> YQ(Undef, Undef, Undef, Undef, Undef)],
    [ok |-> TRUE, has |-> FALSE, q |-> YQ(Undef, Undef, Undef, Undef, Undef)] }
  \cup {[ok |-> TRUE, has |-> TRUE, q |-> q] : q \in YahooQuotes(sym)}

(* ------------------------------ the run --------------------------------- *)

VARIABLES
  variant,    \* which script runs
  pc,         \* main: "adapters", "write", "fallback", "done"
  i,          \* the per-symbol loop: index of the next symbol (1-based)
  host,       \* yahooQuote: the host of the next request for symbol i
  out,        \* the out array of fetchAll / fetchAllStooq / main (update.mjs)
  stooq,      \* the Stooq adapter's promise: [status, value]
  cg,         \* the CoinGecko adapter's promise (or try block): [status, value]
  items,      \* payload.items of main, once built
  log,        \* console output, in order
  requests,   \* history: the per-symbol requests issued, in order, with their outcome
  returned,   \* history: the records the per-symbol fetches returned, in order
  settled,    \* history: the adapters under allSettled, in the order they settled
  writes,     \* history: the writeFile attempts, in order
  file,       \* bar-data.json: <<>> when absent, else <<its parsed content>>
  exit,       \* "running", "success" (status 0), "failure" (status # 0)
  unit        \* the call of the function under study (SpecCalls)

vars == <<variant, pc, i, host, out, stooq, cg, items, log, requests, returned, settled,
          writes, file, exit, unit>>

Pending == [status |-> "pending", value |-> <<>>]
Fulfilled(v) == [status |-> "fulfilled", value |-> v]
\* A rejected promise's allSettled entry has no value key
Rejected == [status |-> "rejected", value |-> <<>>]

LogLine(level, tag, about) == [level |-> level, tag |-> tag, about |-> about]

NoCall == [op |-> "none"]

\* toISTISOString(): a template literal, so always a string; the digits of
\* the clock it renders are not modelled.
toISTISOString == Str(<< "Y","-","M","-","D","T","h",":","m",":","s","+","0","5",":","3","0" >>)

\* JSON.stringify then JSON.parse of a number-valued field: NaN and the
\* infinities are written as null.
JsonNumber(x) == IF x.t \in {"NaN", "Infinity"} THEN Null ELSE x

JsonItem(rec) == [k \in DOMAIN rec |-> JsonNumber(rec[k])]

\* The content of the file after writeFile(out, JSON.stringify(payload, null, 2))
JsonFile(payload) ==
  [updatedAt |-> payload.updatedAt,
   items |-> [k \in DOMAIN payload.items |-> JsonItem(payload.items[k])]]

Payload(its) == [updatedAt |-> toISTISOString, items |-> its]

\* The state of a run when the script starts
RunIdle ==
  /\ pc = "adapters"
  /\ i = 1
  /\ host = "query1"
  /\ out = <<>>
  /\ stooq = Pending
  /\ cg = Pending
  /\ items = <<>>
  /\ log = <<>>
  /\ requests = <<>>
  /\ returned = <<>>
  /\ settled = <<>>
  /\ writes = <<>>
  /\ file = <<>>
  /\ exit = "running"

Init ==
  /\ variant \in Variants
  /\ RunIdle
  /\ unit = NoCall

(* update.mjs: yahooQuote(s) and the loop of main around it *)

\* main's test on the quote of yahooQuote: if (q && q.price != null) out.push(q)
YahooKeep(q) == ~IsNullish(q.price)

\* The loop body of main once yahooQuote has returned the quote q
YahooPush(sym, q) ==
  /\ returned' = Append(returned, [sym |-> sym, rec |-> q])
  /\ out' = IF YahooKeep(q) THEN Append(out, q) ELSE out
  /\ i' = i + 1
  /\ host' = "query1"

\* A variation that goes on to query2 whatever query1 answered
YahooPrimaryDo_AlwaysAlternate(sym, res) ==
  /\ requests' = Append(requests, [sym |-> sym, host |-> "query1", ok |-> ~res.threw,
                                   quote |-> res.value])
  /\ host' = "query2"
  /\ UNCHANGED <<i, out, returned>>

YahooPrimaryDo(sym, res) ==
  /\ requests' = Append(requests, [sym |-> sym, host |-> "query1", ok |-> ~res.threw,
                                   quote |-> res.value])
  /\ IF res.threw
     THEN host' = "query2" /\ UNCHANGED <<i, out, returned>>
     ELSE YahooPush(sym, res.value)

\* yahooQuote(sym): the request to query1, and the loop body when it succeeds
YahooPrimary ==
  /\ variant = "update" /\ pc = "adapters" /\ host = "query1"
  /\ i <= Len(SymbolsOf(variant))
  /\ \E r \in YahooResponses(SymbolsOf(variant)[i]) :
       YahooPrimaryDo(SymbolsOf(variant)[i], yahooQuoteV7(SymbolsOf(variant)[i], r))
  /\ UNCHANGED <<variant, pc, stooq, cg, items, log, writes, file, exit, settled, unit>>

YahooAlternateDo(sym, res) ==
  /\ requests' = Append(requests, [sym |-> sym, host |-> "query2", ok |-> ~res.threw,
                                   quote |-> res.value])
  /\ IF res.threw
     THEN /\ log' = Append(log, LogLine("warn", "[skip]", sym))
          /\ i' = i + 1
          /\ host' = "query1"
          /\ UNCHANGED <<out, returned>>
     ELSE YahooPush(sym, res.value) /\ UNCHANGED log

\* yahooQuote(sym): the request to query2 after query1 failed; when it fails
\* too the symbol is given up with a warning and yahooQuote returns null
YahooAlternate ==
  /\ variant = "update" /\ pc = "adapters" /\ host = "query2"
  /\ \E r \in YahooResponses(SymbolsOf(variant)[i]) :
       YahooAlternateDo(SymbolsOf(variant)[i], yahooQuoteV7(SymbolsOf(variant)[i], r))
  /\ UNCHANGED <<variant, pc, stooq, cg, items, writes, file, exit, settled, unit>>

CryptoDone(rows) ==
  /\ out' = out \o rows
  /\ cg' = Fulfilled(rows)
  /\ items' = out \o rows
  /\ UNCHANGED log

CryptoDo(res) ==
  IF res.threw
  THEN /\ log' = Append(log, LogLine("warn", "[crypto] skipped", <<>>))
       /\ cg' = Rejected
       /\ items' = out
       /\ UNCHANGED out
  ELSE CryptoDone(CryptoRows_update(COINGECKO_update, res.value))

\* main, step 2: the try block around coingeckoSimple, then the payload
Crypto ==
  /\ variant = "update" /\ pc = "adapters" /\ host = "query1"
  /\ i > Len(SymbolsOf(variant))
  /\ \E r \in CoinResponses : CryptoDo(coingeckoSimple(COINGECKO_update, r))
  /\ pc' = "write"
  /\ UNCHANGED <<variant, i, host, stooq, requests, returned, writes, file, exit, settled, unit>>

(* part_000, part_001, part_002: fetchAll / fetchAllStooq *)

\* fetchStooqDaily of the running variant
fetchStooqDaily(v, symbol, r) ==
  CASE v = "part_000" -> fetchStooqDaily_part_000(symbol, r)
    [] v = "part_001" -> fetchStooqDaily_part_001(symbol, r)
    [] v = "part_002" -> fetchStooqDaily_part_002(symbol, r)

\* The test before out.push(row): part_000 and part_001 test row.price too,
\* part_002 tests the row alone
FetchAllKeep(v, row) == IF v = "part_002" THEN TRUE ELSE ~IsNullish(row.price)

SkipTag(v) == IF v = "part_001" THEN "[stooq skip]" ELSE "[skip]"

FetchAllDo(sym, res) ==
  /\ requests' = Append(requests, [sym |-> sym, host |-> "stooq"])
  /\ IF res.threw
     THEN /\ log' = Append(log, LogLine("warn", SkipTag(variant), sym))
          /\ UNCHANGED <<out, returned>>
     ELSE /\ returned' = Append(returned, [sym |-> sym, rec |-> res.value])
          /\ out' = IF FetchAllKeep(variant, res.value) THEN Append(out, res.value) ELSE out
          /\ UNCHANGED log

\* One iteration of the loop of fetchAll / fetchAllStooq
FetchAllStep ==
  /\ variant \in PerSymbolStooq /\ pc = "adapters" /\ stooq.status = "pending"
  /\ i <= Len(SymbolsOf(variant))
  /\ \E r \in DailyResponses :
       FetchAllDo(SymbolsOf(variant)[i], fetchStooqDaily(variant, SymbolsOf(variant)[i], r))
  /\ i' = i + 1
  /\ UNCHANGED <<variant, pc, host, stooq, cg, items, writes, file, exit, settled, unit>>

\* return out: the adapter's promise is fulfilled
FetchAllReturn ==
  /\ variant \in PerSymbolStooq /\ pc = "adapters" /\ stooq.status = "pending"
  /\ i > Len(SymbolsOf(variant))
  /\ stooq' = Fulfilled(out)
  /\ settled' = Append(settled, "stooq")
  /\ UNCHANGED <<variant, pc, i, host, out, cg, items, log, requests, returned, writes,
                 file, exit, unit>>

Settle(res) == IF res.threw THEN Rejected ELSE Fulfilled(res.value)

\* part_003: fetchStooqCsv(STOOQ_SYMBOLS) settles
FetchStooqCsv ==
  /\ variant = "part_003" /\ pc = "adapters" /\ stooq.status = "pending"
  /\ \E r \in CsvResponses : stooq' = Settle(fetchStooqCsv(SymbolsOf(variant), r))
  /\ requests' = Append(requests, [sym |-> <<>>, host |-> "stooq"])
  /\ settled' = Append(settled, "stooq")
  /\ UNCHANGED <<variant, pc, i, host, out, cg, items, log, returned, writes, file, exit,
                 unit>>

\* fetchCoinGecko(COINS) of the running variant
fetchCoinGecko(v, r) ==
  IF v = "part_001" THEN fetchCoinGecko_part_001(COINS_part_001, r)
  ELSE fetchCoinGecko_part_003(COINS_part_003, r)

\* part_001, part_003: fetchCoinGecko(COINS) settles
FetchCoinGecko ==
  /\ variant \in AllSettled /\ pc = "adapters" /\ cg.status = "pending"
  /\ \E r \in CoinResponses : cg' = Settle(fetchCoinGecko(variant, r))
  /\ settled' = Append(settled, "cg")
  /\ UNCHANGED <<variant, pc, i, host, out, stooq, items, log, requests, returned, writes,
                 file, exit, unit>>

\* Array.isArray(res.value) ? res.value : []
ValueOrEmpty(res) == IF res.status = "fulfilled" THEN res.value ELSE <<>>

\* A variation that concatenates in the order of completion
MergeItems_ByCompletion(stooqRes, cgRes) ==
  IF settled # <<>> /\ settled[1] = "cg"
  THEN ValueOrEmpty(cgRes) \o ValueOrEmpty(stooqRes)
  ELSE ValueOrEmpty(stooqRes) \o ValueOrEmpty(cgRes)

\* const items = [...stooqItems, ...cgItems] of part_001 and part_003
MergeItems(stooqRes, cgRes) == ValueOrEmpty(stooqRes) \o ValueOrEmpty(cgRes)

\* main after its await: Promise.allSettled([...]) of part_001 and part_003,
\* await fetchAll(...) of part_000 and part_002; the items are built
Join ==
  /\ variant # "update" /\ pc = "adapters"
  /\ stooq.status # "pending"
  /\ variant \in AllSettled => cg.status # "pending"
  /\ items' = IF variant \in AllSettled THEN MergeItems(stooq, cg) ELSE stooq.value
  /\ pc' = "write"
  /\ UNCHANGED <<variant, i, host, out, stooq, cg, log, requests, returned, writes, file,
                 exit, settled, unit>>

(* the write of main and the catch handler behind it *)

\* A variation in which a run that wrote its payload ends with a failure
ExitAfterMain_Failing(v) == "failure"

\* How the process ends once main has returned: update.mjs calls
\* process.exit(0), the others run out of work and end with status 0
ExitAfterMain(v) == "success"

\* await writeFile(...) in main: the write happens or is rejected
WritePrimary ==
  /\ pc = "write"
  /\ \E ok \in BOOLEAN :
       /\ writes' = Append(writes, [payload |-> Payload(items), ok |-> ok])
       /\ IF ok
          THEN /\ file' = <<JsonFile(Payload(items))>>
               /\ log' = Append(log, LogLine("log", "Wrote", <<>>))
               /\ pc' = "done"
               /\ exit' = ExitAfterMain(variant)
          ELSE /\ pc' = "fallback"
               /\ UNCHANGED <<file, log, exit>>
  /\ UNCHANGED <<variant, i, host, out, stooq, cg, items, requests, returned, settled, unit>>

\* A variation in which a run that reached the catch handler always ends
\* with a failure
ExitAfterFallback_Unforgiving(v, ok) == "failure"

\* How the process ends after the write of the catch handler: update.mjs
\* calls process.exit(0) whether it succeeded or not; part_000, part_001 and
\* part_003 swallow a failure in try {} catch {}; part_002 awaits the write
\* bare, so on failure the handler's promise rejects with nobody to handle it
ExitAfterFallback(v, ok) ==
  IF ok THEN "success" ELSE IF v = "part_002" THEN "failure" ELSE "success"

\* A variation in which the catch handler writes the items of main again
EmptyShell_Full == Payload(items)

\* The payload the catch handler writes
EmptyShell == Payload(<<>>)

\* main().catch(...): the error is logged and the empty shell is written
WriteFallback ==
  /\ pc = "fallback"
  /\ \E ok \in BOOLEAN :
       /\ writes' = Append(writes, [payload |-> EmptyShell, ok |-> ok])
       /\ file' = IF ok THEN <<JsonFile(EmptyShell)>> ELSE file
       /\ log' = IF ok /\ variant = "update"
                 THEN log \o <<LogLine("error", "Non-fatal", <<>>),
                               LogLine("log", "Wrote empty", <<>>)>>
                 ELSE Append(log, LogLine("error", "Non-fatal", <<>>))
       /\ exit' = ExitAfterFallback(variant, ok)
  /\ pc' = "done"
  /\ UNCHANGED <<variant, i, host, out, stooq, cg, items, requests, returned, settled, unit>>

Next ==
  \/ YahooPrimary
  \/ YahooAlternate
  \/ Crypto
  \/ FetchAllStep
  \/ FetchAllReturn
  \/ FetchStooqCsv
  \/ FetchCoinGecko
  \/ Join
  \/ WritePrimary
  \/ WriteFallback

Spec == Init /\ [][Next]_vars

(* ---------------- the adapters' functions called on their own ----------- *)
(* SpecCalls calls one function on one input: fetchStooqDaily on a daily    *)
(* history, fetchStooqCsv on a one-row body, yahooQuoteV7 on a response.    *)
(* The inputs are given with the numbers their field texts denote, so what  *)
(* a record must hold is stated without the code's parsers or arithmetic.   *)

\* Close fields: the text, whether it denotes a number, and the number
CloseTable ==
  { [text |-> T_100, usable |-> TRUE, val |-> 100],
    [text |-> T_110, usable |-> TRUE, val |-> 110],
    [text |-> T_0, usable |-> TRUE, val |-> 0],
    [text |-> T_ND, usable |-> FALSE, val |-> 0] }

T_dollar100 == <<"$","1","0","0">>

\* Open fields: the text, whether it denotes a number (after the currency
\* sign is dropped), and the number
OpenTable ==
  { [text |-> T_100, usable |-> TRUE, val |-> 100],
    [text |-> T_dollar100, usable |-> TRUE, val |-> 100],
    [text |-> T_0, usable |-> TRUE, val |-> 0],
    [text |-> T_empty, usable |-> FALSE, val |-> 0],
    [text |-> T_ND, usable |-> FALSE, val |-> 0] }

T_blank == <<" ", " ">>

\* Field texts handed to a numeric parser, and whether each denotes a number
ParseTable ==
  { [text |-> T_100, numeric |-> TRUE],
    [text |-> T_0, numeric |-> TRUE],
    [text |-> T_empty, numeric |-> FALSE],
    [text |-> T_blank, numeric |-> FALSE],
    [text |-> T_ND, numeric |-> FALSE] }

\* The numeric parser of a variant: n, safeNum, num
NumberParser(v, x) ==
  CASE v = "part_000" -> n(x)
    [] v = "part_001" -> safeNum(x)
    [] v = "part_002" -> num_part_002(x)
    [] v = "part_003" -> num_part_003(x)

\* The body of a daily response with the history's closes, oldest first
DailyResponseOf(history) ==
  [ok |-> TRUE,
   lines |-> <<DailyHeader>> \o [k \in DOMAIN history |-> DailyRow(history[k].text)]]

CallSymbols(v) == {SymbolsOf(v)[k] : k \in DOMAIN SymbolsOf(v)} \cup {S_usdinr}

CallsInit ==
  /\ RunIdle
  /\ \/ /\ variant \in PerSymbolStooq
        /\ \E symbol \in CallSymbols(variant), history \in SeqsUpTo(CloseTable, MaxRows) :
             unit = [op |-> "daily", symbol |-> symbol, history |-> history,
                     done |-> FALSE, res |-> Return(NoQuote)]
     \/ /\ variant = "part_003"
        /\ \E header \in {CsvHeader, CsvHeaderNoOpen}, sym \in CsvSymbols,
              open \in OpenTable, close \in CloseTable :
             unit = [op |-> "csv", header |-> header, sym |-> sym, open |-> open,
                     close |-> close, done |-> FALSE, res |-> Return(<<>>)]
     \/ /\ variant = "update"
        /\ \E k \in DOMAIN SYMBOLS_update :
             \E r \in YahooResponses(SYMBOLS_update[k]) :
               unit = [op |-> "yahoo", symbol |-> SYMBOLS_update[k], r |-> r,
                       done |-> FALSE, res |-> Return(NoQuote)]
     \/ /\ variant \in PerSymbolStooq \cup {"part_003"}
        /\ \E field \in ParseTable :
             unit = [op |-> "parse", field |-> field, done |-> FALSE, res |-> Return(Undef)]

\* The one data line of the batch body of a csv call
CsvLineOf(u) ==
  IF u.header = CsvHeader THEN CsvRow(u.sym, u.open.text, u.close.text)
  ELSE << u.sym, <<"2","0","2","4","-","0","1","-","0","2">>, <<"2","2",":","0","0">>,
          T_110, T_100, u.close.text, <<"7">> >>

CallDaily ==
  /\ unit.op = "daily" /\ ~unit.done
  /\ unit' = [unit EXCEPT !.done = TRUE,
                          !.res = fetchStooqDaily(variant, unit.symbol, DailyResponseOf(unit.history))]
  /\ UNCHANGED <<variant, pc, i, host, out, stooq, cg, items, log, requests, returned,
                 settled, writes, file, exit>>

CallCsv ==
  /\ unit.op = "csv" /\ ~unit.done
  /\ unit' = [unit EXCEPT !.done = TRUE,
                          !.res = fetchStooqCsv(SymbolsOf(variant),
                                                [ok |-> TRUE, lines |-> <<unit.header, CsvLineOf(unit)>>])]
  /\ UNCHANGED <<variant, pc, i, host, out, stooq, cg, items, log, requests, returned,
                 settled, writes, file, exit>>

CallYahoo ==
  /\ unit.op = "yahoo" /\ ~unit.done
  /\ unit' = [unit EXCEPT !.done = TRUE, !.res = yahooQuoteV7(unit.symbol, unit.r)]
  /\ UNCHANGED <<variant, pc, i, host, out, stooq, cg, items, log, requests, returned,
                 settled, writes, file, exit>>

\* n(x), safeNum(x) or num(x) on the text of a field
CallParse ==
  /\ unit.op = "parse" /\ ~unit.done
  /\ unit' = [unit EXCEPT !.done = TRUE,
                          !.res = Return(NumberParser(variant, Str(unit.field.text)))]
  /\ UNCHANGED <<variant, pc, i, host, out, stooq, cg, items, log, requests, returned,
                 settled, writes, file, exit>>

CallsNext == CallDaily \/ CallCsv \/ CallYahoo \/ CallParse

SpecCalls == CallsInit /\ [][CallsNext]_vars

(* ------------------------------ properties ------------------------------ *)

\* The items of a payload as they stand in the written file
JsonItems(its) == [k \in DOMAIN its |-> JsonItem(its[k])]

\* Every per-symbol fetch failed and every whole-adapter request failed
AllAdaptersFailed ==
  /\ returned = <<>>
  /\ variant \in {"update", "part_001", "part_003"} => cg.status = "rejected"
  /\ variant = "part_003" => stooq.status = "rejected"

\* A warning about an adapter as a whole (the per-symbol warnings name a symbol)
AdapterWarned == \E k \in DOMAIN log : log[k].level = "warn" /\ log[k].about = <<>>

\* C1: every record of the items written to the output file has a non-null
\* price, in every variant and for every combination of upstream responses.
C1_WrittenPricesNonNull ==
  file # <<>> => \A k \in DOMAIN file[1].items : file[1].items[k].price.t = "number"

C3_OneAdapterFails ==
  (pc = "done" /\ variant \in {"update", "part_001", "part_003"} /\ writes[1].ok) =>
     /\ (cg.status = "rejected" /\ (variant = "part_003" => stooq.status = "fulfilled")) =>
          /\ file[1].items = JsonItems(IF variant = "update" THEN out ELSE stooq.value)
          /\ AdapterWarned
          /\ exit = "success"
     /\ (variant = "part_003" /\ stooq.status = "rejected" /\ cg.status = "fulfilled") =>
          /\ file[1].items = JsonItems(cg.value)
          /\ AdapterWarned
          /\ exit = "success"

\* C4: the process ends with success whenever a write attempt succeeded; it
\* ends with a failure only after both the primary write and the empty-shell
\* write failed; and it does not end before the run is done.
C4_FailureOnlyWhenNothingPersisted ==
  /\ pc # "done" => exit = "running"
  /\ pc = "done" =>
       /\ exit \in {"success", "failure"}
       /\ (\E k \in DOMAIN writes : writes[k].ok) => exit = "success"
       /\ exit = "failure" => (Len(writes) = 2 /\ ~writes[1].ok /\ ~writes[2].ok)

C4_Witness ==
  /\ pc = "done" /\ variant = "part_002"
  /\ Len(writes) = 2 /\ ~writes[1].ok /\ writes[2].ok
  /\ exit = "success"

\* C5: a run attempts at most two writes; the first is the payload of main;
\* when it succeeds no other write follows and the file keeps the full
\* payload; when it is rejected exactly one more write follows, of the
\* payload with items = [].
C5_WriteAttempts ==
  /\ Len(writes) <= 2
  /\ Len(writes) >= 1 => writes[1].payload.items = items
  /\ Len(writes) = 2 => (~writes[1].ok /\ writes[2].payload.items = <<>>)
  /\ pc = "done" =>
       /\ Len(writes) >= 1
       /\ writes[1].ok => (Len(writes) = 1 /\ file = <<JsonFile(writes[1].payload)>>)
       /\ ~writes[1].ok => Len(writes) = 2

C5_Witness ==
  /\ pc = "done" /\ Len(writes) = 2
  /\ writes[1].payload.items # <<>>
  /\ writes[2].ok /\ file[1].items = <<>>

\* The position of a coin symbol in the coin list
CoinIndex(symbol) ==
  CHOOSE k \in DOMAIN COINS_part_001 : Str(COINS_part_001[k].symbol) = symbol

\* C6: under the all-settle join the write comes only after both adapters
\* have settled, and the written items are the Stooq adapter's records
\* followed by the CoinGecko adapter's records in coin-list order, whatever
\* the order in which the two settled.
C6_ItemsInDeclarationOrder ==
  (variant \in AllSettled /\ pc # "adapters") =>
     /\ stooq.status # "pending" /\ cg.status # "pending"
     /\ items = (IF stooq.status = "fulfilled" THEN stooq.value ELSE <<>>)
                \o (IF cg.status = "fulfilled" THEN cg.value ELSE <<>>)
     /\ \A a, b \in DOMAIN cg.value :
          a < b => CoinIndex(cg.value[a].symbol) < CoinIndex(cg.value[b].symbol)
     /\ writes # <<>> => writes[1].payload.items = items

C6_Witness ==
  /\ variant \in AllSettled /\ pc = "done" /\ writes[1].ok
  /\ settled = <<"cg", "stooq">>
  /\ stooq.status = "fulfilled" /\ stooq.value # <<>>
  /\ cg.status = "fulfilled" /\ Len(cg.value) = 2

\* The number k as a value of the model, written without the code's arithmetic
IsInt(x, k) == x.t = "number" /\ x.n = k /\ x.d = 1

\* x is the number p / q (q # 0)
IsRatio(x, p, q) == x.t = "number" /\ x.n * q = p * x.d

LastOf(history) == history[Len(history)]
PrevOf(history) == history[Len(history) - 1]

\* C7 (as amended): two-point strategy.  For a history of at least two rows
\* whose last two closes are the numbers prev and last, the record has
\* price = last and change = last - prev, and changePercent is
\* (last - prev) / prev * 100 when prev is not 0 and 0 when prev is 0; for a
\* history of exactly one row whose close is a number, the record has that
\* price, change = 0 and changePercent = 0, and nothing is thrown.
C7_TwoPointStrategy ==
  (unit.op = "daily" /\ unit.done) =>
     /\ (Len(unit.history) >= 2 /\ LastOf(unit.history).usable /\ PrevOf(unit.history).usable) =>
          /\ ~unit.res.threw
          /\ IsInt(unit.res.value.price, LastOf(unit.history).val)
          /\ IsInt(unit.res.value.change, LastOf(unit.history).val - PrevOf(unit.history).val)
          /\ IF PrevOf(unit.history).val # 0
             THEN IsRatio(unit.res.value.changePercent,
                          (LastOf(unit.history).val - PrevOf(unit.history).val) * 100,
                          PrevOf(unit.history).val)
             ELSE IsInt(unit.res.value.changePercent, 0)
     /\ (Len(unit.history) = 1 /\ LastOf(unit.history).usable) =>
          /\ ~unit.res.threw
          /\ IsInt(unit.res.value.price, LastOf(unit.history).val)
          /\ IsInt(unit.res.value.change, 0)
          /\ IsInt(unit.res.value.changePercent, 0)

\* C7 as stated: changePercent is (last - prev) / prev * 100 for every prev,
\* and a history of exactly one row gives change = 0 and changePercent = 0
\* without an error whatever its close.
C7_AsStated ==
  (unit.op = "daily" /\ unit.done) =>
     /\ (Len(unit.history) >= 2 /\ LastOf(unit.history).usable /\ PrevOf(unit.history).usable) =>
          /\ ~unit.res.threw
          /\ IsInt(unit.res.value.price, LastOf(unit.history).val)
          /\ IsInt(unit.res.value.change, LastOf(unit.history).val - PrevOf(unit.history).val)
          /\ PrevOf(unit.history).val # 0
          /\ IsRatio(unit.res.value.changePercent,
                     (LastOf(unit.history).val - PrevOf(unit.history).val) * 100,
                     PrevOf(unit.history).val)
     /\ Len(unit.history) = 1 =>
          /\ ~unit.res.threw
          /\ IsInt(unit.res.value.change, 0)
          /\ IsInt(unit.res.value.changePercent, 0)

\* The history [..., 100, 110] gave change 10 and changePercent 10
C7_Witness ==
  /\ unit.op = "daily" /\ unit.done /\ Len(unit.history) >= 2
  /\ PrevOf(unit.history).val = 100 /\ LastOf(unit.history).val = 110
  /\ IsInt(unit.res.value.change, 10)
  /\ IsInt(unit.res.value.changePercent, 10)

\* The baseline of a csv call is absent or numerically zero
NoBaseline(u) == u.header = CsvHeaderNoOpen \/ ~u.open.usable \/ u.open.val = 0

\* C8: single-point-with-baseline strategy.  A row with a usable close is
\* emitted with that price; when its open is absent or zero its change and
\* changePercent are 0, otherwise change = close - open and changePercent =
\* change / open * 100.  No emitted record has a NaN or infinite change or
\* changePercent.
C8_BaselineStrategy ==
  (unit.op = "csv" /\ unit.done) =>
     /\ ~unit.res.threw
     /\ \A k \in DOMAIN unit.res.value :
          /\ unit.res.value[k].changePercent.t = "number"
          /\ unit.res.value[k].change.t = "number"
     /\ unit.close.usable =>
          /\ Len(unit.res.value) = 1
          /\ IsInt(unit.res.value[1].price, unit.close.val)
          /\ IF NoBaseline(unit)
             THEN /\ IsInt(unit.res.value[1].change, 0)
                  /\ IsInt(unit.res.value[1].changePercent, 0)
             ELSE /\ IsInt(unit.res.value[1].change, unit.close.val - unit.open.val)
                  /\ IsRatio(unit.res.value[1].changePercent,
                             (unit.close.val - unit.open.val) * 100, unit.open.val)

\* A row with open 0 and close 110 was emitted with changePercent 0
C8_Witness ==
  /\ unit.op = "csv" /\ unit.done /\ unit.header = CsvHeader
  /\ unit.open.text = T_0 /\ unit.close.val = 110
  /\ Len(unit.res.value) = 1
  /\ IsInt(unit.res.value[1].changePercent, 0)

\* The name the precedence gives: the table's entry for the symbol, else the
\* name the source provides, else the symbol in upper case
NameByPrecedence(table, symbol, sourceName) ==
  IF symbol \in DOMAIN table THEN Str(table[symbol])
  ELSE IF sourceName.t = "string" /\ sourceName.s # <<>> THEN sourceName
  ELSE Str(toUpperCase(symbol))

FriendlyOf(v) ==
  CASE v = "part_000" -> FRIENDLY_part_000
    [] v = "part_001" -> FRIENDLY_part_001
    [] v = "part_002" -> FRIENDLY_part_002

\* C9: the name of every emitted record is the lookup table's entry for its
\* symbol, else the name the source provides, else the symbol in upper case,
\* in the Yahoo adapter, the Stooq batch adapter and the per-symbol adapters.
\* The source's name is shortName, else longName, of a Yahoo quote and the
\* symbol column as received of a batch row; a daily history carries none.
C9_NamePrecedence ==
  unit.done =>
    CASE unit.op = "yahoo" ->
           ~unit.res.threw =>
              unit.res.value.name =
                NameByPrecedence(FRIENDLY_update, unit.r.q.symbol.s,
                                 Or(unit.r.q.shortName, unit.r.q.longName))
      [] unit.op = "csv" ->
           \A k \in DOMAIN unit.res.value :
              unit.res.value[k].name =
                NameByPrecedence(FRIENDLY_part_003, unit.res.value[k].symbol.s, Str(unit.sym))
      [] unit.op = "daily" ->
           ~unit.res.threw =>
              unit.res.value.name =
                NameByPrecedence(FriendlyOf(variant), unit.res.value.symbol.s, Undef)
      [] OTHER -> TRUE

\* A per-symbol adapter has run through its list
PerSymbolDone ==
  \/ variant = "update" /\ pc = "adapters" /\ host = "query1" /\ i > Len(SymbolsOf(variant))
  \/ variant \in PerSymbolStooq /\ stooq.status = "fulfilled"

\* Its result: out of the Yahoo loop, the value of fetchAll / fetchAllStooq
PerSymbolResult == IF variant = "update" THEN out ELSE stooq.value

\* The symbols fetched, in order (one call of yahooQuote starts at query1)
Attempted ==
  LET first == SelectSeq(requests, LAMBDA q : q.host \in {"query1", "stooq"})
  IN  [k \in DOMAIN first |-> first[k].sym]

\* The symbols whose fetch failed: no record came back for them
FailedSymbols ==
  {SymbolsOf(variant)[k] : k \in DOMAIN SymbolsOf(variant)}
    \ {returned[k].sym : k \in DOMAIN returned}

SkipWarnings(sym) == {k \in DOMAIN log : log[k].level = "warn" /\ log[k].about = sym}

\* C10: in every per-symbol adapter, whichever symbols fail, every configured
\* symbol is attempted once in configured order, the result is exactly the
\* records of the symbols that did not fail, in order, and one warning is
\* logged for each symbol that failed.
C10_PerSymbolIsolation ==
  (variant \in PerSymbolStooq \cup {"update"} /\ PerSymbolDone) =>
     /\ Attempted = SymbolsOf(variant)
     /\ PerSymbolResult = [k \in DOMAIN returned |-> returned[k].rec]
     /\ \A s \in FailedSymbols : Cardinality(SkipWarnings(s)) = 1
     /\ Cardinality({k \in DOMAIN log : log[k].level = "warn"}) = Cardinality(FailedSymbols)

\* C11: the numeric parsers n, safeNum and num return null, never 0, for a
\* text that denotes no finite number (the empty string, a whitespace-only
\* string, a placeholder such as "N/D"); and a row whose close is such a text
\* is not emitted with a price: the batch adapter emits no record for it and
\* the per-symbol adapter returns no record with a number as its price.
C11_UnparseableIsNull ==
  unit.done =>
    CASE unit.op = "parse" ->
           ~unit.field.numeric => unit.res.value = Null
      [] unit.op = "csv" ->
           ~unit.close.usable => unit.res.value = <<>>
      [] unit.op = "daily" ->
           (unit.history # <<>> /\ ~LastOf(unit.history).usable) =>
              (unit.res.threw \/ unit.res.value.price.t # "number")
      [] OTHER -> TRUE

RequestsOf(sym) == {k \in DOMAIN requests : requests[k].sym = sym}

\* C12: in the Yahoo variant each symbol gets at most two requests, the first
\* to the primary host and a second, to the alternate host, only right after
\* a failed primary one; the quote of the first request that succeeds is
\* what yahooQuote returns; and when both fail one skip warning is logged, no
\* quote is returned, and main goes on (its catch handler is reached only by
\* a rejected write).
C12_AtMostOneAlternate ==
  variant = "update" =>
     /\ \A k \in DOMAIN requests :
          /\ requests[k].host \in {"query1", "query2"}
          /\ Cardinality(RequestsOf(requests[k].sym)) <= 2
          /\ requests[k].host = "query1" =>
                \A j \in RequestsOf(requests[k].sym) : j >= k
          /\ requests[k].host = "query2" =>
                /\ k > 1
                /\ requests[k - 1].host = "query1"
                /\ requests[k - 1].sym = requests[k].sym
                /\ ~requests[k - 1].ok
          /\ requests[k].ok =>
                /\ \A j \in RequestsOf(requests[k].sym) : j <= k
                /\ \E j \in DOMAIN returned :
                      returned[j] = [sym |-> requests[k].sym, rec |-> requests[k].quote]
                /\ SkipWarnings(requests[k].sym) = {}
          /\ (requests[k].host = "query2" /\ ~requests[k].ok) =>
                /\ Cardinality(SkipWarnings(requests[k].sym)) = 1
                /\ \A j \in DOMAIN returned : returned[j].sym # requests[k].sym
     /\ Len(returned) = Cardinality({k \in DOMAIN requests : requests[k].ok})
     /\ pc = "fallback" => (writes # <<>> /\ ~writes[1].ok)
     /\ exit # "failure"

\* One symbol was given up after two failed requests, the next was served by
\* the alternate host, and the run wrote its file
C12_Witness ==
  /\ variant = "update" /\ pc = "done" /\ Len(requests) = 4
  /\ ~requests[1].ok /\ ~requests[2].ok
  /\ ~requests[3].ok /\ requests[4].ok
  /\ writes[1].ok /\ Len(file[1].items) >= 1


====
